---- MODULE Spec2Model ----
(***************************************************************************)
(* The cleaner staffing dashboard of src/pnl_cleaner.py.                   *)
(*                                                                         *)
(* The script is a Streamlit page: eight number_input widgets hold the     *)
(* inputs, and every change of a widget re-executes the whole script from  *)
(* top to bottom (one blocking pass) in a fresh namespace.  The state is   *)
(* the eight widget values, the module-level variables bound by the last   *)
(* pass, and the page the last pass rendered.                              *)
(*                                                                         *)
(* Amounts of money are counted in units of 1/Scale RM (Scale = 2: the     *)
(* smallest widget step is RM 0.50).  On such values (dyadic, far below    *)
(* 2^53) Python's float -, * are exact, and math.ceil of the rounded       *)
(* quotient equals the ceiling of the exact quotient, so floats are        *)
(* modelled by exact integers and the quotient by a pair <<num, den>>.     *)
(* Text formatting of figures (f"{x:,.2f}") is not modelled: the page      *)
(* records the numbers handed to the widgets and charts.                   *)
(***************************************************************************)
EXTENDS Integers, Sequences, FiniteSets, TLC

VARIABLES
    \* the sidebar widgets (lines 197-214)
    job_revenue, cleaner_pay, transport_cost, supplies_cost,
    hostel_cost_per_month, jobs_per_cleaner_per_day,
    working_days_per_month, target_monthly_profit,
    \* module-level names bound by the call at lines 221-226
    profit_per_job, jobs_per_cleaner_per_month,
    gross_profit_per_cleaner_per_month, net_profit_per_cleaner_per_month,
    num_cleaners_needed, error_message,
    \* the local num_cleaners_needed_raw of the last call (None: never bound)
    num_cleaners_needed_raw,
    \* the exception that ended the last pass (None: the pass ran to its end)
    exception,
    \* what the last pass rendered and the module-level names it bound
    page

inputs == <<job_revenue, cleaner_pay, transport_cost, supplies_cost,
            hostel_cost_per_month, jobs_per_cleaner_per_day,
            working_days_per_month, target_monthly_profit>>

results == <<profit_per_job, jobs_per_cleaner_per_month,
             gross_profit_per_cleaner_per_month,
             net_profit_per_cleaner_per_month,
             num_cleaners_needed, error_message>>

vars == <<inputs, results, num_cleaners_needed_raw, exception, page>>

-----------------------------------------------------------------------------
(* Values *)

\* Python's None, and a bound optional value.
None == <<>>
Some(x) == <<x>>

\* Units per RM.
Scale == 2

\* Bounds of the values a user enters (in units; the widget defaults are
\* always among the values).
MaxJobRevenue == 3
MaxCleanerPay == 1
MaxTransportCost == 1
MaxSuppliesCost == 1
MaxHostelCost == 2
MaxJobsPerDay == 2
MaxWorkingDays == 2
MaxTargetProfit == 4

\* value= of each widget
DefaultJobRevenue == 100 * Scale
DefaultCleanerPay == 35 * Scale
DefaultTransportCost == 17 * Scale
DefaultSuppliesCost == 3 * Scale
DefaultHostelCost == 300 * Scale
DefaultJobsPerDay == 2
DefaultWorkingDays == 26
DefaultTargetProfit == 30000 * Scale

\* min_value= / max_value= of each widget
MinMoney == 0
MinJobsPerDay == 1
WidgetMaxJobsPerDay == 5
MinWorkingDays == 1
WidgetMaxWorkingDays == 31

Min2(a, b) == IF a <= b THEN a ELSE b

JobRevenueValues == (MinMoney..MaxJobRevenue) \cup {DefaultJobRevenue}
CleanerPayValues == (MinMoney..MaxCleanerPay) \cup {DefaultCleanerPay}
TransportCostValues == (MinMoney..MaxTransportCost) \cup {DefaultTransportCost}
SuppliesCostValues == (MinMoney..MaxSuppliesCost) \cup {DefaultSuppliesCost}
HostelCostValues == (MinMoney..MaxHostelCost) \cup {DefaultHostelCost}
JobsPerDayValues ==
    (MinJobsPerDay..Min2(MaxJobsPerDay, WidgetMaxJobsPerDay)) \cup {DefaultJobsPerDay}
WorkingDaysValues ==
    (MinWorkingDays..Min2(MaxWorkingDays, WidgetMaxWorkingDays)) \cup {DefaultWorkingDays}
TargetProfitValues == (MinMoney..MaxTargetProfit) \cup {DefaultTargetProfit}

-----------------------------------------------------------------------------
(* Python arithmetic *)

ZeroDivisionError == Some("ZeroDivisionError")

\* a / b: the quotient as a pair, or the exception.
TrueDiv(a, b) ==
    IF b = 0 THEN [raised |-> ZeroDivisionError, value |-> None]
    ELSE [raised |-> None, value |-> <<a, b>>]

\* math.ceil(q): the least integer >= q[1] / q[2].
MathCeil(q) ==
    IF q[2] > 0 THEN -((-q[1]) \div q[2]) ELSE -(q[1] \div (-q[2]))

\* bool(x) of an optional string.
Truthy(m) == m # None /\ m[1] # ""

RECURSIVE SumSeq(_)
\* Series.sum()
SumSeq(s) == IF s = <<>> THEN 0 ELSE Head(s) + SumSeq(Tail(s))

-----------------------------------------------------------------------------
(* calculate_cleaner_needs, lines 155-185 *)

\* Variant of line 163 that leaves the supplies out.
ProfitPerJobNoSupplies(jr, cp, tc, sc) == jr - cp - tc

\* line 163
ProfitPerJob(jr, cp, tc, sc) == jr - cp - tc - sc

\* line 166
JobsPerCleanerPerMonth(jd, wd) == jd * wd

\* line 169
GrossProfitPerCleanerPerMonth(ppj, jpm) == ppj * jpm

\* line 172
NetProfitPerCleanerPerMonth(gross, hc) == gross - hc

\* Variant of line 178 with < for <=.
UnprofitableStrict(net) == net < 0

\* the condition of the if at line 178
Unprofitable(net) == net <= 0

\* line 179
UnprofitableMessage ==
    "Net profit per cleaner is zero or negative. Adjust inputs to achieve a positive profit per cleaner."

\* Variant of line 181 with the operands exchanged.
CleanersNeededRawSwapped(tp, net) == TrueDiv(net, tp)

\* line 181: the operands of the division
CleanersNeededRaw(tp, net) == TrueDiv(tp, net)

\* Variants of line 182: math.floor, round (to nearest) and int() + 1 for
\* math.ceil.
CleanersNeededFloor(raw) == raw[1] \div raw[2]
CleanersNeededRound(raw) == (2 * raw[1] + raw[2]) \div (2 * raw[2])
CleanersNeededFloorPlusOne(raw) == (raw[1] \div raw[2]) + 1

\* line 182
CleanersNeeded(raw) == MathCeil(raw)

\* The frame of the call when it returns (its six returned values, and the
\* local num_cleaners_needed_raw), or the exception that ended it.
calculate_cleaner_needs(jr, cp, tc, sc, hc, jd, wd, tp) ==
    LET ppj == ProfitPerJob(jr, cp, tc, sc)
        jpm == JobsPerCleanerPerMonth(jd, wd)
        gross == GrossProfitPerCleanerPerMonth(ppj, jpm)
        net == NetProfitPerCleanerPerMonth(gross, hc)
        \* lines 175-176
        frame == [profit_per_job |-> ppj,
                  jobs_per_cleaner_per_month |-> jpm,
                  gross_profit_per_cleaner_per_month |-> gross,
                  net_profit_per_cleaner_per_month |-> net,
                  num_cleaners_needed |-> 0,
                  error_message |-> None,
                  num_cleaners_needed_raw |-> None,
                  exception |-> None]
    IN  IF Unprofitable(net)
        THEN [frame EXCEPT !.error_message = Some(UnprofitableMessage)]
        ELSE LET q == CleanersNeededRaw(tp, net)
             IN  IF q.raised # None
                 THEN [profit_per_job |-> None,
                       jobs_per_cleaner_per_month |-> None,
                       gross_profit_per_cleaner_per_month |-> None,
                       net_profit_per_cleaner_per_month |-> None,
                       num_cleaners_needed |-> None,
                       error_message |-> None,
                       num_cleaners_needed_raw |-> None,
                       exception |-> q.raised]
                 ELSE [frame EXCEPT !.num_cleaners_needed_raw = q.value,
                                    !.num_cleaners_needed = CleanersNeeded(q.value)]

-----------------------------------------------------------------------------
(* The rest of the script, lines 228-357 *)

\* lines 229-253: the main result and the KPIs
SummarySection(r, jr, tp) ==
    IF Truthy(r.error_message)
    THEN [st_error |-> r.error_message,
          st_info |-> "Consider reducing costs or increasing revenue per job to make your business model profitable."]
    ELSE [st_success |-> <<tp, r.num_cleaners_needed>>,
          metric_profit_per_job |-> r.profit_per_job,
          metric_net_profit_per_cleaner_per_month |-> r.net_profit_per_cleaner_per_month,
          metric_jobs_per_cleaner_per_month |-> r.jobs_per_cleaner_per_month,
          total_jobs_per_month |->
              r.num_cleaners_needed * r.jobs_per_cleaner_per_month,
          total_monthly_revenue_needed |->
              r.num_cleaners_needed * jr * r.jobs_per_cleaner_per_month]

\* lines 289-292
MonthlyCosts(r, cp, tc, sc, hc) ==
    [total_cleaner_pay_monthly |->
         r.num_cleaners_needed * cp * r.jobs_per_cleaner_per_month,
     total_transport_cost_monthly |->
         r.num_cleaners_needed * tc * r.jobs_per_cleaner_per_month,
     total_supplies_cost_monthly |->
         r.num_cleaners_needed * sc * r.jobs_per_cleaner_per_month,
     total_hostel_cost_monthly |-> r.num_cleaners_needed * hc]

\* lines 294-297: the 'Amount' column of monthly_financials_data
MonthlyFinancialsAmount(m, tp) ==
    <<m.total_cleaner_pay_monthly, m.total_transport_cost_monthly,
      m.total_supplies_cost_monthly, m.total_hostel_cost_monthly, tp>>

\* Variant of line 311 that sums the four costs only.
TotalMonthlyRevenueCostsOnly(amount) == SumSeq(SubSeq(amount, 1, 4))

\* line 311
TotalMonthlyRevenue(amount) == SumSeq(amount)

\* lines 338-339: the y values of the waterfall
WaterfallY(m, total, tp) ==
    <<total, -m.total_cleaner_pay_monthly, -m.total_transport_cost_monthly,
      -m.total_supplies_cost_monthly, -m.total_hostel_cost_monthly, tp>>

\* Variant of lines 260-357 without the test of error_message at line 260.
ChartSectionUnguarded(r, cp, tc, sc, hc, tp) ==
    LET m == MonthlyCosts(r, cp, tc, sc, hc)
        amount == MonthlyFinancialsAmount(m, tp)
        total == TotalMonthlyRevenue(amount)
    IN  [cost_data |-> <<cp, tc, sc, r.profit_per_job>>,
         monthly_financials_data |-> amount,
         total_monthly_revenue |-> total,
         waterfall_y |-> WaterfallY(m, total, tp)] @@ m

\* lines 260-357: the charts
ChartSection(r, cp, tc, sc, hc, tp) ==
    IF Truthy(r.error_message)
    THEN [st_warning |-> "Charts are not available when the business model is unprofitable. Please adjust inputs."]
    ELSE LET m == MonthlyCosts(r, cp, tc, sc, hc)
             amount == MonthlyFinancialsAmount(m, tp)
             total == TotalMonthlyRevenue(amount)
         IN  [cost_data |-> <<cp, tc, sc, r.profit_per_job>>,
              monthly_financials_data |-> amount,
              total_monthly_revenue |-> total,
              waterfall_y |-> WaterfallY(m, total, tp)] @@ m

\* One pass of the script over the widget values: the frame of the call at
\* lines 221-226 and the page rendered after it.  An exception ends the pass
\* where it is raised, and the page shows it.
ScriptPass(jr, cp, tc, sc, hc, jd, wd, tp) ==
    LET r == calculate_cleaner_needs(jr, cp, tc, sc, hc, jd, wd, tp)
    IN  [frame |-> r,
         page |-> IF r.exception # None
                  THEN [st_exception |-> r.exception]
                  ELSE SummarySection(r, jr, tp)
                       @@ ChartSection(r, cp, tc, sc, hc, tp)]

\* Variant of a pass that leaves the page of the pass before on the screen
\* when the result is unprofitable.
RerunStale(jr, cp, tc, sc, hc, jd, wd, tp) ==
    \E p \in {ScriptPass(jr, cp, tc, sc, hc, jd, wd, tp)} :
        /\ job_revenue' = jr
        /\ cleaner_pay' = cp
        /\ transport_cost' = tc
        /\ supplies_cost' = sc
        /\ hostel_cost_per_month' = hc
        /\ jobs_per_cleaner_per_day' = jd
        /\ working_days_per_month' = wd
        /\ target_monthly_profit' = tp
        /\ profit_per_job' = p.frame.profit_per_job
        /\ jobs_per_cleaner_per_month' = p.frame.jobs_per_cleaner_per_month
        /\ gross_profit_per_cleaner_per_month' =
               p.frame.gross_profit_per_cleaner_per_month
        /\ net_profit_per_cleaner_per_month' =
               p.frame.net_profit_per_cleaner_per_month
        /\ num_cleaners_needed' = p.frame.num_cleaners_needed
        /\ error_message' = p.frame.error_message
        /\ num_cleaners_needed_raw' = p.frame.num_cleaners_needed_raw
        /\ exception' = p.frame.exception
        /\ page' = IF Truthy(p.frame.error_message) THEN page ELSE p.page

\* The state after a pass over the given widget values (p: the one pass).
Rerun(jr, cp, tc, sc, hc, jd, wd, tp) ==
    \E p \in {ScriptPass(jr, cp, tc, sc, hc, jd, wd, tp)} :
        /\ job_revenue' = jr
        /\ cleaner_pay' = cp
        /\ transport_cost' = tc
        /\ supplies_cost' = sc
        /\ hostel_cost_per_month' = hc
        /\ jobs_per_cleaner_per_day' = jd
        /\ working_days_per_month' = wd
        /\ target_monthly_profit' = tp
        /\ profit_per_job' = p.frame.profit_per_job
        /\ jobs_per_cleaner_per_month' = p.frame.jobs_per_cleaner_per_month
        /\ gross_profit_per_cleaner_per_month' =
               p.frame.gross_profit_per_cleaner_per_month
        /\ net_profit_per_cleaner_per_month' =
               p.frame.net_profit_per_cleaner_per_month
        /\ num_cleaners_needed' = p.frame.num_cleaners_needed
        /\ error_message' = p.frame.error_message
        /\ num_cleaners_needed_raw' = p.frame.num_cleaners_needed_raw
        /\ exception' = p.frame.exception
        /\ page' = p.page

-----------------------------------------------------------------------------
(* The session *)

\* The first pass, over the widgets' default values.
Init ==
    LET p == ScriptPass(DefaultJobRevenue, DefaultCleanerPay,
                        DefaultTransportCost, DefaultSuppliesCost,
                        DefaultHostelCost, DefaultJobsPerDay,
                        DefaultWorkingDays, DefaultTargetProfit)
    IN  /\ job_revenue = DefaultJobRevenue
        /\ cleaner_pay = DefaultCleanerPay
        /\ transport_cost = DefaultTransportCost
        /\ supplies_cost = DefaultSuppliesCost
        /\ hostel_cost_per_month = DefaultHostelCost
        /\ jobs_per_cleaner_per_day = DefaultJobsPerDay
        /\ working_days_per_month = DefaultWorkingDays
        /\ target_monthly_profit = DefaultTargetProfit
        /\ profit_per_job = p.frame.profit_per_job
        /\ jobs_per_cleaner_per_month = p.frame.jobs_per_cleaner_per_month
        /\ gross_profit_per_cleaner_per_month =
               p.frame.gross_profit_per_cleaner_per_month
        /\ net_profit_per_cleaner_per_month =
               p.frame.net_profit_per_cleaner_per_month
        /\ num_cleaners_needed = p.frame.num_cleaners_needed
        /\ error_message = p.frame.error_message
        /\ num_cleaners_needed_raw = p.frame.num_cleaners_needed_raw
        /\ exception = p.frame.exception
        /\ page = p.page

\* The user changes one widget; the script runs again.
ChangeJobRevenue ==
    \E v \in JobRevenueValues \ {job_revenue} :
        Rerun(v, cleaner_pay, transport_cost, supplies_cost,
              hostel_cost_per_month, jobs_per_cleaner_per_day,
              working_days_per_month, target_monthly_profit)

ChangeCleanerPay ==
    \E v \in CleanerPayValues \ {cleaner_pay} :
        Rerun(job_revenue, v, transport_cost, supplies_cost,
              hostel_cost_per_month, jobs_per_cleaner_per_day,
              working_days_per_month, target_monthly_profit)

ChangeTransportCost ==
    \E v \in TransportCostValues \ {transport_cost} :
        Rerun(job_revenue, cleaner_pay, v, supplies_cost,
              hostel_cost_per_month, jobs_per_cleaner_per_day,
              working_days_per_month, target_monthly_profit)

ChangeSuppliesCost ==
    \E v \in SuppliesCostValues \ {supplies_cost} :
        Rerun(job_revenue, cleaner_pay, transport_cost, v,
              hostel_cost_per_month, jobs_per_cleaner_per_day,
              working_days_per_month, target_monthly_profit)

ChangeHostelCost ==
    \E v \in HostelCostValues \ {hostel_cost_per_month} :
        Rerun(job_revenue, cleaner_pay, transport_cost, supplies_cost,
              v, jobs_per_cleaner_per_day,
              working_days_per_month, target_monthly_profit)

ChangeJobsPerDay ==
    \E v \in JobsPerDayValues \ {jobs_per_cleaner_per_day} :
        Rerun(job_revenue, cleaner_pay, transport_cost, supplies_cost,
              hostel_cost_per_month, v,
              working_days_per_month, target_monthly_profit)

ChangeWorkingDays ==
    \E v \in WorkingDaysValues \ {working_days_per_month} :
        Rerun(job_revenue, cleaner_pay, transport_cost, supplies_cost,
              hostel_cost_per_month, jobs_per_cleaner_per_day,
              v, target_monthly_profit)

ChangeTargetProfit ==
    \E v \in TargetProfitValues \ {target_monthly_profit} :
        Rerun(job_revenue, cleaner_pay, transport_cost, supplies_cost,
              hostel_cost_per_month, jobs_per_cleaner_per_day,
              working_days_per_month, v)

Next ==
    \/ ChangeJobRevenue
    \/ ChangeCleanerPay
    \/ ChangeTransportCost
    \/ ChangeSuppliesCost
    \/ ChangeHostelCost
    \/ ChangeJobsPerDay
    \/ ChangeWorkingDays
    \/ ChangeTargetProfit

Spec == Init /\ [][Next]_vars

-----------------------------------------------------------------------------
(* Properties *)

\* The last pass found the model profitable / unprofitable.
Staffed == exception = None /\ ~Truthy(error_message)
UnprofitableResult == exception = None /\ Truthy(error_message)

\* C1: when net_profit_per_cleaner_per_month > 0 (target_monthly_profit >= 0),
\* num_cleaners_needed is the ceiling of target / net: the least integer n
\* with n * net >= target; so num * net >= target, and (num - 1) * net <
\* target whenever num > 0.
C1_CeilingIsLeastSufficient ==
    /\ exception = None
    /\ target_monthly_profit >= 0
    /\ net_profit_per_cleaner_per_month > 0 =>
          /\ num_cleaners_needed \in Int
          /\ num_cleaners_needed * net_profit_per_cleaner_per_month
                 >= target_monthly_profit
          /\ num_cleaners_needed > 0 =>
                 (num_cleaners_needed - 1) * net_profit_per_cleaner_per_month
                     < target_monthly_profit
          /\ \A n \in 0..(num_cleaners_needed - 1) :
                 n * net_profit_per_cleaner_per_month < target_monthly_profit

\* A pass that rounds up: the target is no multiple of the net profit and
\* several cleaners are needed.
C1_Witness ==
    /\ Staffed
    /\ num_cleaners_needed >= 2
    /\ num_cleaners_needed * net_profit_per_cleaner_per_month
           > target_monthly_profit

\* C2: when net_profit_per_cleaner_per_month <= 0 the result is Unprofitable:
\* the error message is present and not empty, num_cleaners_needed is 0 and
\* the four derived values are still returned; when it is > 0 the result
\* carries no error message.
C2_UnprofitableIffNetNotPositive ==
    /\ exception = None
    /\ profit_per_job \in Int
    /\ jobs_per_cleaner_per_month \in Int
    /\ gross_profit_per_cleaner_per_month \in Int
    /\ net_profit_per_cleaner_per_month \in Int
    /\ net_profit_per_cleaner_per_month <= 0 =>
          /\ error_message # None
          /\ error_message[1] # ""
          /\ num_cleaners_needed = 0
    /\ net_profit_per_cleaner_per_month > 0 => error_message = None

\* An unprofitable pass with a target to reach.
C2_Witness ==
    /\ UnprofitableResult
    /\ net_profit_per_cleaner_per_month < 0
    /\ target_monthly_profit > 0

\* C3: the call always returns (no ZeroDivisionError); the division of line
\* 181 is evaluated only with a divisor net_profit_per_cleaner_per_month > 0;
\* a net profit of exactly 0 gives the Unprofitable result, with the message
\* a negative net profit gives, whatever the target.
C3_NeverDividesByNonPositive ==
    /\ exception = None
    /\ num_cleaners_needed_raw # None =>
          /\ net_profit_per_cleaner_per_month > 0
          /\ num_cleaners_needed_raw[2] = net_profit_per_cleaner_per_month
          /\ num_cleaners_needed_raw[2] > 0
    /\ net_profit_per_cleaner_per_month = 0 =>
          /\ num_cleaners_needed_raw = None
          /\ error_message = Some(UnprofitableMessage)
          /\ num_cleaners_needed = 0
    /\ net_profit_per_cleaner_per_month < 0 =>
          /\ num_cleaners_needed_raw = None
          /\ error_message = Some(UnprofitableMessage)
          /\ num_cleaners_needed = 0

\* A pass whose net profit per cleaner is exactly 0, with a positive target.
C3_Witness ==
    /\ exception = None
    /\ net_profit_per_cleaner_per_month = 0
    /\ target_monthly_profit > 0
    /\ Truthy(error_message)

\* Only job_revenue differs between the inputs of this pass and of the next.
OnlyJobRevenueChanges ==
    /\ cleaner_pay' = cleaner_pay
    /\ transport_cost' = transport_cost
    /\ supplies_cost' = supplies_cost
    /\ hostel_cost_per_month' = hostel_cost_per_month
    /\ jobs_per_cleaner_per_day' = jobs_per_cleaner_per_day
    /\ working_days_per_month' = working_days_per_month
    /\ target_monthly_profit' = target_monthly_profit

\* C4: between two passes whose inputs differ only in job_revenue, with
\* r1 <= r2: profit_per_job and net_profit_per_cleaner_per_month at r1 are <=
\* those at r2, and when net > 0 at both, num_cleaners_needed at r2 is <=
\* that at r1.  (Every pair r1, r2 of the domain is one step of the session,
\* in one direction or the other.)
C4_MonotoneInJobRevenue ==
    [][ (OnlyJobRevenueChanges /\ exception = None /\ exception' = None) =>
          /\ job_revenue <= job_revenue' =>
                /\ profit_per_job <= profit_per_job'
                /\ net_profit_per_cleaner_per_month
                       <= net_profit_per_cleaner_per_month'
                /\ (net_profit_per_cleaner_per_month > 0
                        /\ net_profit_per_cleaner_per_month' > 0) =>
                       num_cleaners_needed' <= num_cleaners_needed
          /\ job_revenue' <= job_revenue =>
                /\ profit_per_job' <= profit_per_job
                /\ net_profit_per_cleaner_per_month'
                       <= net_profit_per_cleaner_per_month
                /\ (net_profit_per_cleaner_per_month > 0
                        /\ net_profit_per_cleaner_per_month' > 0) =>
                       num_cleaners_needed <= num_cleaners_needed'
      ]_vars

\* A staffed pass that a lower job_revenue, still profitable, would have
\* answered with strictly more cleaners.
C4_Witness ==
    /\ Staffed
    /\ \E r1 \in JobRevenueValues :
          LET o == calculate_cleaner_needs(
                       r1, cleaner_pay, transport_cost, supplies_cost,
                       hostel_cost_per_month, jobs_per_cleaner_per_day,
                       working_days_per_month, target_monthly_profit)
          IN  /\ r1 < job_revenue
              /\ o.exception = None
              /\ o.net_profit_per_cleaner_per_month > 0
              /\ o.num_cleaners_needed > num_cleaners_needed

\* The widgets hold their default values (scenario 1 of the specification).
DefaultInputs ==
    inputs = <<DefaultJobRevenue, DefaultCleanerPay, DefaultTransportCost,
               DefaultSuppliesCost, DefaultHostelCost, DefaultJobsPerDay,
               DefaultWorkingDays, DefaultTargetProfit>>

\* C5: on both branches the four derived values are
\* profit_per_job = job_revenue - cleaner_pay - transport_cost - supplies_cost,
\* jobs_per_cleaner_per_month = jobs_per_cleaner_per_day * working_days_per_month,
\* gross = profit_per_job * jobs_per_cleaner_per_month and
\* net = gross - hostel_cost_per_month, a negative profit_per_job included;
\* inputs 100, 35, 17, 3, 300, 2, 26, 30000 give 45, 52, 2340, 2040 and 15.
C5_DerivedValues ==
    /\ exception = None
    /\ profit_per_job =
           job_revenue - cleaner_pay - transport_cost - supplies_cost
    /\ jobs_per_cleaner_per_month =
           jobs_per_cleaner_per_day * working_days_per_month
    /\ gross_profit_per_cleaner_per_month =
           profit_per_job * jobs_per_cleaner_per_month
    /\ net_profit_per_cleaner_per_month =
           gross_profit_per_cleaner_per_month - hostel_cost_per_month
    /\ DefaultInputs =>
          /\ profit_per_job = 45 * Scale
          /\ jobs_per_cleaner_per_month = 52
          /\ gross_profit_per_cleaner_per_month = 2340 * Scale
          /\ net_profit_per_cleaner_per_month = 2040 * Scale
          /\ num_cleaners_needed = 15
          /\ error_message = None

\* An unprofitable pass in which a negative profit_per_job has propagated
\* through several jobs and a hostel cost.
C5_Witness ==
    /\ UnprofitableResult
    /\ profit_per_job < 0
    /\ jobs_per_cleaner_per_month > 1
    /\ hostel_cost_per_month > 0
    /\ gross_profit_per_cleaner_per_month < profit_per_job
    /\ net_profit_per_cleaner_per_month < gross_profit_per_cleaner_per_month

C7_ZeroTarget ==
    /\ exception = None
    /\ num_cleaners_needed >= 0
    /\ (target_monthly_profit = 0 /\ net_profit_per_cleaner_per_month > 0) =>
          /\ error_message = None
          /\ num_cleaners_needed = 0
          /\ "st_success" \in DOMAIN page
          /\ page["st_success"] = <<0, 0>>

\* A profitable pass with a target of 0.
C7_Witness ==
    /\ Staffed
    /\ target_monthly_profit = 0
    /\ net_profit_per_cleaner_per_month > 0

\* The names of the four monthly cost totals.
CostTotals ==
    {"total_cleaner_pay_monthly", "total_transport_cost_monthly",
     "total_supplies_cost_monthly", "total_hostel_cost_monthly"}

\* C8: in a Staffed pass the four cost totals are num_cleaners_needed *
\* (cleaner_pay | transport_cost | supplies_cost) * jobs_per_cleaner_per_month
\* and num_cleaners_needed * hostel_cost_per_month, and total_monthly_revenue
\* is their sum plus target_monthly_profit, so that total_monthly_revenue
\* minus the four totals is the target.
C8_MonthlyAggregates ==
    Staffed =>
        /\ CostTotals \subseteq DOMAIN page
        /\ "total_monthly_revenue" \in DOMAIN page
        /\ page["total_cleaner_pay_monthly"] =
               num_cleaners_needed * cleaner_pay * jobs_per_cleaner_per_month
        /\ page["total_transport_cost_monthly"] =
               num_cleaners_needed * transport_cost * jobs_per_cleaner_per_month
        /\ page["total_supplies_cost_monthly"] =
               num_cleaners_needed * supplies_cost * jobs_per_cleaner_per_month
        /\ page["total_hostel_cost_monthly"] =
               num_cleaners_needed * hostel_cost_per_month
        /\ page["total_monthly_revenue"] =
               page["total_cleaner_pay_monthly"]
               + page["total_transport_cost_monthly"]
               + page["total_supplies_cost_monthly"]
               + page["total_hostel_cost_monthly"]
               + target_monthly_profit
        /\ page["total_monthly_revenue"]
               - page["total_cleaner_pay_monthly"]
               - page["total_transport_cost_monthly"]
               - page["total_supplies_cost_monthly"]
               - page["total_hostel_cost_monthly"]
               = target_monthly_profit
        /\ page["waterfall_y"][1] = page["total_monthly_revenue"]
        /\ page["waterfall_y"][6] = target_monthly_profit

\* A staffed pass with several cleaners, all four costs positive and a
\* positive target that the cleaners overshoot.
C8_Witness ==
    /\ Staffed
    /\ num_cleaners_needed >= 2
    /\ \A k \in CostTotals : k \in DOMAIN page /\ page[k] > 0
    /\ target_monthly_profit > 0
    /\ num_cleaners_needed * net_profit_per_cleaner_per_month
           # target_monthly_profit

\* What a staffed pass computes and shows, and what an unprofitable one shows.
StaffedNames ==
    {"st_success", "metric_profit_per_job",
     "metric_net_profit_per_cleaner_per_month",
     "metric_jobs_per_cleaner_per_month",
     "total_jobs_per_month", "total_monthly_revenue_needed",
     "cost_data", "monthly_financials_data", "total_monthly_revenue",
     "waterfall_y"} \cup CostTotals
UnprofitableNames == {"st_error", "st_info", "st_warning"}

\* C9: in every pass, the KPI figures, the monthly aggregates and the chart
\* data are computed if and only if the result has no error message; an
\* unprofitable pass produces the reason and the advice messages and nothing
\* else, whatever the passes before it computed.
C9_ComputedIffStaffed ==
    /\ exception = None
    /\ Truthy(error_message) =>
          /\ DOMAIN page = UnprofitableNames
          /\ page["st_error"] = error_message
    /\ ~Truthy(error_message) => DOMAIN page = StaffedNames
    /\ (DOMAIN page \cap StaffedNames # {}) <=> error_message = None

\* An unprofitable pass right where a staffed one is one widget change away.
C9_Witness ==
    /\ UnprofitableResult
    /\ DOMAIN page = UnprofitableNames
    /\ \E r \in JobRevenueValues :
          ~Truthy(calculate_cleaner_needs(
                      r, cleaner_pay, transport_cost, supplies_cost,
                      hostel_cost_per_month, jobs_per_cleaner_per_day,
                      working_days_per_month,
                      target_monthly_profit).error_message)

\* C10: in every Staffed pass total_monthly_revenue_needed (the KPI) is >=
\* total_monthly_revenue (the charts); their difference is num_cleaners_needed
\* * net_profit_per_cleaner_per_month - target_monthly_profit, which is < the
\* net profit per cleaner; and they are equal exactly when the target is an
\* integer multiple of the net profit per cleaner.
C10_RevenueTotalsConsistent ==
    Staffed =>
        LET needed == page["total_monthly_revenue_needed"]
            total == page["total_monthly_revenue"]
            net == net_profit_per_cleaner_per_month
        IN  /\ needed >= total
            /\ needed - total = num_cleaners_needed * net - target_monthly_profit
            /\ needed - total < net
            /\ needed = total <=> target_monthly_profit % net = 0

\* A staffed pass whose two revenue totals differ.
C10_Witness ==
    /\ Staffed
    /\ page["total_monthly_revenue_needed"] > page["total_monthly_revenue"]
    /\ target_monthly_profit > 0

====
